---- MODULE Spec2Model ----
(***************************************************************************)
(* The search API route of embed-browser (pages/api/search.js).  The       *)
(* repository carries two revisions of the route: the documented one       *)
(* (src/unnamed/part_005) and the earlier one (src/pages/api/search.js).   *)
(* Both are modelled; `impl` says which revision serves the request.       *)
(*                                                                         *)
(* One request is followed from its arrival to its response.  The steps    *)
(* of the handler are cut at its awaits: the upstream page fetch, and the  *)
(* Promise.allSettled over the HEAD probes.                                *)
(***************************************************************************)
EXTENDS Integers, Sequences, FiniteSets, TLC

(* ------------------------------------------------------------------ *)
(* Program constants                                                   *)
(* ------------------------------------------------------------------ *)
Documented == "unnamed/part_005"
Earlier == "pages/api/search.js"
Impls == {Documented, Earlier}

\* num=10 of the upstream request URL
PageSize == 10
\* 10 - finalItems.length / finalItems.slice(0, 10)
OutputCap == 10

(* ------------------------------------------------------------------ *)
(* Bounds of the environment                                           *)
(* ------------------------------------------------------------------ *)
\* the largest number of results the upstream holds for a query
MaxTotal == 35
\* probes answer in issue order within a lane, lanes interleave freely
NumLanes == 2

Totals == {0, 1, 8, 11, MaxTotal}
Cursors == {"honest", "always", "never", "stuck"}
Profiles ==
  {"allOk", "noneOk", "oddOk", "denyHead", "allDeny", "noLinkHead", "oddFail"}

Min(a, b) == IF a < b THEN a ELSE b
Max(a, b) == IF a > b THEN a ELSE b

(* ------------------------------------------------------------------ *)
(* The upstream world: what a result of a given rank looks like        *)
(* ------------------------------------------------------------------ *)
\* item.link of the result of upstream rank r:
\*   "plain" a parsable URL off the denylist, "denylisted" a parsable URL
\*   whose host is on the denylist, "none" no link field
LinkOf(profile, r) ==
  CASE profile = "allDeny" -> "denylisted"
    [] profile = "denyHead" -> IF r = 1 THEN "denylisted" ELSE "plain"
    [] profile = "noLinkHead" -> IF r = 1 THEN "none" ELSE "plain"
    [] OTHER -> "plain"

\* what the HEAD probe of the result of rank r finds: TRUE when the target
\* answers below 400 without blocking headers
TargetAllowsFraming(profile, r) ==
  CASE profile = "allOk" -> TRUE
    [] profile = "noneOk" -> FALSE
    [] profile = "oddOk" -> r % 2 = 1
    [] profile = "denyHead" -> TRUE
    [] profile = "allDeny" -> FALSE
    [] profile = "noLinkHead" -> r % 2 = 0
    [] profile = "oddFail" -> r % 2 = 0

\* the HEAD probe of the result of rank r fails: no answer before the
\* timeout, a network error, or a status of 400 or more
TargetFails(profile, r) == profile = "oddFail" /\ r % 2 = 1

VARIABLES
  impl,            \* which revision of the route handles the request
  req,             \* the request: method, body
  env,             \* process.env: are the two credentials configured
  world,           \* the upstream: total results, cursor conduct, profile
  pc,              \* where the handler is suspended
  potentialItems,  \* candidates accumulated from the upstream pages
  start,           \* offset of the next page request
  fetchCount,      \* page requests made so far
  pageAnswers,     \* how each page request settled, in order
  probed,          \* initiallyFilteredItems.slice(0, limit)
  checks,          \* displayableChecks: one slot per probed item
  pageRequests,    \* offsets of the page requests sent, in order
  res,             \* responses sent, in order
  escaped,         \* an exception left the handler
  outOfOrder,      \* a probe settled while an earlier-issued one was pending
  probe,           \* one call of isDisplayable, followed on its own
  filt,            \* one call of isEmbeddable, followed on its own
  mongo,           \* lib/mongodb.js: the cached connection and its callers
  track,           \* the tracking endpoint and its collection
  page             \* the user's search page: state, refs, requests sent

vars == <<impl, req, env, world, pc, potentialItems, start, fetchCount,
          pageAnswers, probed, checks, pageRequests, res, escaped,
          outOfOrder, probe, filt, mongo, track, page>>

(* ------------------------------------------------------------------ *)
(* Policy of each revision                                             *)
(* ------------------------------------------------------------------ *)
\* does the request body ask for filtering (truthiness of filterEmbeddable)
WantsFilter(r) == r.body.parsed /\ r.body.filterEmbeddable

maxResultsNeeded(i, r) ==
  IF i = Documented THEN 50 ELSE IF WantsFilter(r) THEN 30 ELSE 10

MAX_FETCHES(i, r) ==
  IF i = Documented THEN 5 ELSE IF WantsFilter(r) THEN 5 ELSE 1

ProbeLimit(i) == IF i = Documented THEN 30 ELSE 20

\* fetchCount <= MAX_FETCHES: one page request too many
LoopConditionOffByOne(i, r, items, fc) ==
  Len(items) < maxResultsNeeded(i, r) /\ fc <= MAX_FETCHES(i, r)

\* the while condition of the paging loop
LoopCondition(i, r, items, fc) ==
  Len(items) < maxResultsNeeded(i, r) /\ fc < MAX_FETCHES(i, r)

(* ------------------------------------------------------------------ *)
(* isEmbeddable: the static denylist check                             *)
(* ------------------------------------------------------------------ *)
isEmbeddable(link) == link = "plain"

\* item => item.link: the denylist is not consulted
PassesStaticFilterLinkOnly(item) == LinkOf(world.profile, item.rank) # "none"

\* item => item.link && isEmbeddable(item.link)
PassesStaticFilter(item) ==
  LinkOf(world.profile, item.rank) # "none"
    /\ isEmbeddable(LinkOf(world.profile, item.rank))

initiallyFilteredItems(i, r, items) ==
  IF i = Documented \/ WantsFilter(r)
    THEN SelectSeq(items, PassesStaticFilter)
    ELSE items

\* isDisplayable(item.link): a missing link makes fetch reject, which the
\* probe's catch turns into false
isDisplayable(item) ==
  LinkOf(world.profile, item.rank) # "none"
    /\ TargetAllowsFraming(world.profile, item.rank)

(* ------------------------------------------------------------------ *)
(* Combining                                                           *)
(* ------------------------------------------------------------------ *)
RECURSIVE FinalItemsFrom(_, _, _)
\* the items of the fulfilled checks whose value.ok is true, in slot order
FinalItemsFrom(p, c, k) ==
  IF k > Len(p) THEN <<>>
  ELSE (IF c[k] = "ok" THEN <<p[k]>> ELSE <<>>) \o FinalItemsFrom(p, c, k + 1)

finalItems(p, c) == FinalItemsFrom(p, c, 1)

Includes(s, x) == \E k \in 1..Len(s) : s[k] = x

\* slice(0, 10): the room left by the displayable items is not computed
nonDisplayableItemsFixedSlice(items, fin) ==
  LET NotFinal(it) == ~Includes(fin, it)
      rest == SelectSeq(items, NotFinal)
  IN  SubSeq(rest, 1, Min(Len(rest), OutputCap))

nonDisplayableItems(items, fin) ==
  LET NotFinal(it) == ~Includes(fin, it)
      rest == SelectSeq(items, NotFinal)
  IN  SubSeq(rest, 1, Min(Len(rest), Max(0, OutputCap - Len(fin))))

\* the items are answered as copies: new objects with the same content
combinedResultsCopied(i, items, fin) ==
  LET out == IF i = Documented
               THEN fin \o nonDisplayableItems(items, fin)
               ELSE SubSeq(fin, 1, Min(Len(fin), OutputCap))
  IN  [k \in 1..Len(out) |-> [id |-> 0, rank |-> out[k].rank]]

combinedResults(i, items, fin) ==
  IF i = Documented
    THEN fin \o nonDisplayableItems(items, fin)
    ELSE SubSeq(fin, 1, Min(Len(fin), OutputCap))

(* ------------------------------------------------------------------ *)
(* Responses                                                           *)
(* ------------------------------------------------------------------ *)
Response(status, items, allow, details) ==
  [status |-> status, items |-> items, allow |-> allow, details |-> details]

\* req.body: null (a JSON body of null, parsed FALSE), or an object whose
\* query is missing, empty or a text
NullBody == [parsed |-> FALSE, query |-> "missing", filterEmbeddable |-> FALSE]

Bodies ==
  {NullBody} \cup
  [parsed : {TRUE}, query : {"missing", "", "test"}, filterEmbeddable : BOOLEAN]

Methods == {"POST", "GET", "PUT"}

\* no separate call of isDisplayable / isEmbeddable is being followed
NoCsp == [pre |-> "", name |-> "", gap |-> "", value |-> "", post |-> ""]

ProbeOff ==
  [pc |-> "off", target |-> "none", status |-> 0, xfo |-> "",
   cspParts |-> NoCsp, csp |-> "",
   timer |-> "none", request |-> "none", result |-> FALSE]

FiltOff ==
  [pc |-> "off",
   parts |-> [scheme |-> "", prefix |-> "", domain |-> "", suffix |-> "",
              path |-> "", upper |-> FALSE],
   url |-> "", result |-> FALSE]

\* the database helper, the tracking endpoint and the page are not running
MongoOff == [pc |-> "off"]
TrackOff == [pc |-> "off"]
PageOff == [pc |-> "off"]

Init ==
  /\ impl \in Impls
  /\ req \in [method : Methods, body : Bodies]
  /\ env \in [apiKey : BOOLEAN, cx : BOOLEAN]
  /\ world \in [total : Totals, cursor : Cursors, profile : Profiles]
  /\ pc = "idle"
  /\ potentialItems = <<>>
  /\ start = 1
  /\ fetchCount = 0
  /\ pageAnswers = <<>>
  /\ probed = <<>>
  /\ checks = <<>>
  /\ pageRequests = <<>>
  /\ res = <<>>
  /\ escaped = FALSE
  /\ outOfOrder = FALSE
  /\ probe = ProbeOff
  /\ filt = FiltOff
  /\ mongo = MongoOff
  /\ track = TrackOff
  /\ page = PageOff

(* ------------------------------------------------------------------ *)
(* Steps of the handler                                                *)
(* ------------------------------------------------------------------ *)
\* no catch: the exception leaves the handler and nothing is sent
OnThrowUncaught == [res |-> <<>>, escaped |-> TRUE]

\* catch (error) { res.status(500).json({ error, details }) }
OnThrow == [res |-> <<Response(500, <<>>, FALSE, TRUE)>>, escaped |-> FALSE]

\* the handler ends by sending r
Finish(r) ==
  /\ res' = res \o r.res
  /\ escaped' = r.escaped
  /\ pc' = "done"

Respond(status, items, allow, details) ==
  Finish([res |-> <<Response(status, items, allow, details)>>,
          escaped |-> FALSE])

\* no slice: every kept item is probed
StartProbesUnbounded(items) ==
  LET kept == initiallyFilteredItems(impl, req, items)
  IN  /\ probed' = kept
      /\ checks' = [k \in 1..Len(kept) |-> "pending"]
      /\ pc' = "awaitProbes"
      /\ UNCHANGED <<res, escaped>>

\* the probes start: filter, slice, one HEAD request per kept item
StartProbes(items) ==
  LET filtered == initiallyFilteredItems(impl, req, items)
      kept == SubSeq(filtered, 1, Min(Len(filtered), ProbeLimit(impl)))
  IN  /\ probed' = kept
      /\ checks' = [k \in 1..Len(kept) |-> "pending"]
      /\ pc' = "awaitProbes"
      /\ UNCHANGED <<res, escaped>>

\* the next page is requested together with the current one
LoopTestPrefetch(items, st, fc) ==
  IF LoopCondition(impl, req, items, fc)
    THEN /\ fetchCount' = fc + 1
         /\ pageRequests' = pageRequests \o <<st, st + PageSize>>
         /\ pc' = "awaitPage"
         /\ UNCHANGED <<probed, checks, res, escaped>>
    ELSE /\ fetchCount' = fc
         /\ pageRequests' = pageRequests
         /\ StartProbes(items)

\* the loop test with the values the iteration left: another page request,
\* or on to the probes
LoopTest(items, st, fc) ==
  IF LoopCondition(impl, req, items, fc)
    THEN /\ fetchCount' = fc + 1
         /\ pageRequests' = Append(pageRequests, st)
         /\ pc' = "awaitPage"
         /\ UNCHANGED <<probed, checks, res, escaped>>
    ELSE /\ fetchCount' = fc
         /\ pageRequests' = pageRequests
         /\ StartProbes(items)

\* break: leave the loop without another test
Break(items) ==
  /\ UNCHANGED <<fetchCount, pageRequests>>
  /\ StartProbes(items)

\* GET passes the method test too
MethodAllowedGetToo(m) == m \in {"POST", "GET"}

\* req.method !== 'POST' answers 405
MethodAllowed(m) == m = "POST"

\* only both missing counts
CredentialsMissingBoth(e) == ~e.apiKey /\ ~e.cx

\* !API_KEY || !SEARCH_ENGINE_ID
CredentialsMissing(e) == ~e.apiKey \/ ~e.cx

\* the request arrives: method, body, query, credentials, first loop test
Receive ==
  /\ pc = "idle"
  /\ IF ~MethodAllowed(req.method)
       THEN /\ Respond(405, <<>>, TRUE, FALSE)
            /\ UNCHANGED <<potentialItems, start, fetchCount,
                           probed, checks, pageRequests>>
     ELSE IF ~req.body.parsed
       THEN /\ Finish(OnThrow)
            /\ UNCHANGED <<potentialItems, start, fetchCount,
                           probed, checks, pageRequests>>
     ELSE IF req.body.query \in {"missing", ""}
       THEN /\ Respond(400, <<>>, FALSE, FALSE)
            /\ UNCHANGED <<potentialItems, start, fetchCount,
                           probed, checks, pageRequests>>
     ELSE IF CredentialsMissing(env)
       THEN /\ Respond(500, <<>>, FALSE, FALSE)
            /\ UNCHANGED <<potentialItems, start, fetchCount,
                           probed, checks, pageRequests>>
     ELSE /\ LoopTest(<<>>, 1, 0)
          /\ UNCHANGED <<potentialItems, start>>
  /\ UNCHANGED <<impl, req, env, world, pageAnswers, outOfOrder, probe, filt,
                 mongo, track, page>>

\* what the upstream holds at offset st: the number of items of the page
PageCount(st) == Max(0, Min(PageSize, world.total - st + 1))

\* data.queries.nextPage[0] of the page at offset st
HasNextPage(st) ==
  CASE world.cursor = "honest" -> st + PageCount(st) <= world.total
    [] world.cursor = "always" -> TRUE
    [] world.cursor = "stuck" -> TRUE
    [] world.cursor = "never" -> FALSE

NextStartIndex(st) ==
  IF world.cursor = "stuck" THEN st ELSE st + Max(1, PageCount(st))

\* data.items of the page at offset st, as fresh objects
PageItems(st, have) ==
  [j \in 1..PageCount(st) |-> [id |-> have + j, rank |-> st + j - 1]]

\* how a page fetch settles: the fetch rejects (status 0), or a response
\* with a status and a body that response.json() can or cannot parse
FetchRejects == [status |-> 0, json |-> FALSE]

PageOutcomes == {FetchRejects} \cup [status : {200, 403, 429, 500}, json : BOOLEAN]

\* only 403 is taken for a quota error
IsQuotaStatusOnly403(status) == status = 403

\* response.status === 403 || response.status === 429
IsQuotaStatus(status) == status \in {403, 429}

\* the answer as the handler sees it: status, body, and for a parsed 200
\* answer the number of items and whether a next page is named
Answer(o, st) ==
  [status |-> o.status, json |-> o.json,
   count |-> IF o.status = 200 /\ o.json THEN PageCount(st) ELSE 0,
   cursor |-> o.status = 200 /\ o.json /\ HasNextPage(st)]

\* the awaited page fetch settles and the iteration runs to the next await
PageResolves(o) ==
  /\ pc = "awaitPage"
  /\ pageAnswers' = Append(pageAnswers, Answer(o, start))
  /\ IF o = FetchRejects \/ ~o.json \/ IsQuotaStatus(o.status)
       THEN /\ Finish(OnThrow)
            /\ UNCHANGED <<potentialItems, start, fetchCount,
                           probed, checks, pageRequests>>
     ELSE IF o.status # 200
       THEN /\ Break(potentialItems)
            /\ UNCHANGED <<potentialItems, start>>
     ELSE IF PageCount(start) = 0
       THEN /\ Break(potentialItems)
            /\ UNCHANGED <<potentialItems, start>>
     ELSE LET items == potentialItems \o PageItems(start, Len(potentialItems))
          IN  /\ potentialItems' = items
              /\ IF ~HasNextPage(start)
                   THEN /\ Break(items)
                        /\ start' = start
                   ELSE /\ start' = NextStartIndex(start)
                        /\ LoopTest(items, NextStartIndex(start), fetchCount)
  /\ UNCHANGED <<impl, req, env, world, outOfOrder, probe, filt,
                 mongo, track, page>>

\* lanes: the probe of slot k answers after the earlier probes of its lane
MaySettle(k) ==
  /\ checks[k] = "pending"
  /\ \A j \in 1..(k - 1) : j % NumLanes = k % NumLanes => checks[j] # "pending"

\* the probe of an item fails: no link to fetch, or a failing target
ProbeFailed(it) ==
  LinkOf(world.profile, it.rank) = "none" \/ TargetFails(world.profile, it.rank)

\* one AbortController for the batch: after a failed probe the probes still
\* in flight are aborted with it
SettledValueSharedAbort(p, c, k) ==
  IF \E j \in 1..Len(c) : c[j] = "no" /\ ProbeFailed(p[j])
    THEN "no"
    ELSE IF isDisplayable(p[k]) THEN "ok" ELSE "no"

\* the verdicts are paired with the items in the order the probes complete
SettledValueByCompletion(p, c, k) ==
  LET n == Cardinality({j \in 1..Len(c) : c[j] # "pending"})
  IN  IF isDisplayable(p[n + 1]) THEN "ok" ELSE "no"

\* .then(ok => ({ item, ok })): the value of slot k pairs the item of slot k
\* with the verdict of its own probe
SettledValue(p, c, k) == IF isDisplayable(p[k]) THEN "ok" ELSE "no"

\* one HEAD probe settles; its slot takes the verdict
ProbeSettles(k) ==
  /\ pc = "awaitProbes"
  /\ k \in 1..Len(checks)
  /\ MaySettle(k)
  /\ checks' = [checks EXCEPT ![k] = SettledValue(probed, checks, k)]
  /\ outOfOrder' = (outOfOrder \/ \E j \in 1..(k - 1) : checks[j] = "pending")
  /\ UNCHANGED <<impl, req, env, world, pc, potentialItems, start, fetchCount,
                 pageAnswers, probed, pageRequests, res, escaped, probe, filt,
                 mongo, track, page>>

\* Promise.race-like: the first settled probe releases the handler
FirstSettled(c) == c = <<>> \/ \E k \in 1..Len(c) : c[k] # "pending"

\* Promise.allSettled: every probe of the batch has settled
AllSettled(c) == \A k \in 1..Len(c) : c[k] # "pending"

\* Promise.allSettled resolves: collect, combine, answer 200
Combine ==
  /\ pc = "awaitProbes"
  /\ AllSettled(checks)
  /\ Respond(200, combinedResults(impl, potentialItems, finalItems(probed, checks)),
             FALSE, FALSE)
  /\ UNCHANGED <<impl, req, env, world, potentialItems, start, fetchCount,
                 pageAnswers, probed, checks, pageRequests, outOfOrder,
                 probe, filt, mongo, track, page>>

Next ==
  \/ Receive
  \/ \E o \in PageOutcomes : PageResolves(o)
  \/ \E k \in 1..ProbeLimit(impl) : ProbeSettles(k)
  \/ Combine

Spec == Init /\ [][Next]_vars

(* ------------------------------------------------------------------ *)
(* Properties of a request                                             *)
(* ------------------------------------------------------------------ *)
Done == pc = "done"
Sent200 == Done /\ Len(res) = 1 /\ res[1].status = 200
Items == res[1].items

WasProbed(it) == Includes(probed, it)
\* what the target of a probed candidate answers, whenever it answers
TrulyDisplayable(it) == WasProbed(it) /\ isDisplayable(it)
NotTrulyDisplayable(it) == ~TrulyDisplayable(it)
\* the displayable candidates and the others, each in upstream ranking order
DisplayableInRank == SelectSeq(potentialItems, TrulyDisplayable)
OthersInRank == SelectSeq(potentialItems, NotTrulyDisplayable)
D == Len(DisplayableInRank)
N == Len(potentialItems)
\* kept by the static stage of this request, yet past the probe limit
BeyondProbeLimit(it) ==
  Includes(initiallyFilteredItems(impl, req, potentialItems), it) /\ ~WasProbed(it)

\* C1: every 200 response carries at most 10 items
C1_AtMostTenItems ==
  \A k \in 1..Len(res) : res[k].status = 200 => Len(res[k].items) <= 10

\* C2: in the documented route, when a probed candidate is displayable the
\* response begins with exactly the displayable candidates in upstream
\* ranking order, whatever the order in which the probes completed
C2_DisplayableFirstInRank ==
  (Sent200 /\ impl = Documented /\ D >= 1) =>
    /\ Len(Items) >= D
    /\ SubSeq(Items, 1, D) = DisplayableInRank
    /\ \A k \in (D + 1)..Len(Items) : ~TrulyDisplayable(Items[k])

C2_Witness ==
  /\ Sent200 /\ impl = Documented /\ outOfOrder
  /\ D >= 2 /\ D < Len(probed)

\* C3: in the documented route, with D < 10 displayable out of N candidates
\* the response is the D displayable items followed by the first
\* min(10 - D, N - D) other candidates in upstream order; its length is
\* min(10, N)
C3_BackfillInRank ==
  (Sent200 /\ impl = Documented /\ D < 10) =>
    /\ Items = DisplayableInRank \o SubSeq(OthersInRank, 1, Min(10 - D, N - D))
    /\ Len(Items) = Min(10, N)

C3_Witness ==
  /\ Sent200 /\ impl = Documented
  /\ D >= 1 /\ D < 10 /\ N > 10

\* C4: a 200 response to a request with at least one upstream candidate is
\* never empty; with no displayable probe it is the first min(10, N)
\* candidates in upstream order
C4_NeverEmpty ==
  (Sent200 /\ N >= 1) =>
    /\ Items # <<>>
    /\ D = 0 => Items = SubSeq(potentialItems, 1, Min(10, N))

\* C5: a candidate past the probe limit is never in the displayable part of
\* the response and stays in the backfill pool: the part after the
\* displayable items is the first min(10 - D, N - D) other candidates,
\* unprobed ones included, in upstream order
C5_UnprobedStayEligible ==
  (Sent200 /\ \E k \in 1..N : BeyondProbeLimit(potentialItems[k])) =>
    /\ \A k \in 1..Min(D, Len(Items)) : ~BeyondProbeLimit(Items[k])
    /\ SubSeq(Items, D + 1, Len(Items))
         = SubSeq(OthersInRank, 1, Min(Max(0, 10 - D), N - D))

LastAnswer == pageAnswers[Len(pageAnswers)]

\* C6: a page answer with status 403 or 429 ends the request at once: it is
\* the last answer, no page request follows it, the response is 500 with
\* details and without items, and no probe is issued
C6_QuotaAborts ==
  \A k \in 1..Len(pageAnswers) :
    pageAnswers[k].status \in {403, 429} =>
      /\ k = Len(pageAnswers)
      /\ Len(pageRequests) = k
      /\ Done
      /\ res = <<[status |-> 500, items |-> <<>>, allow |-> FALSE, details |-> TRUE]>>
      /\ probed = <<>>

C6_Witness ==
  /\ Done /\ Len(pageAnswers) >= 2 /\ potentialItems # <<>>
  /\ LastAnswer.status = 429

\* C7: after a page answer with an error status other than 403/429 the
\* request ends with a 200 response, whatever the body of that answer
C7_OtherErrorsEndIn200 ==
  (Done /\ \E k \in 1..Len(pageAnswers) : pageAnswers[k].status = 500) =>
    /\ Len(res) = 1
    /\ res[1].status = 200

\* C8: a POST whose query is missing or empty is answered 400, and no page
\* request and no probe is issued
C8_EmptyQueryIs400 ==
  (Done /\ req.method = "POST"
     /\ (~req.body.parsed \/ req.body.query \in {"missing", ""})) =>
    /\ Len(res) = 1
    /\ res[1].status = 400
    /\ pageRequests = <<>>
    /\ probed = <<>>

\* C9: the handler sends exactly one response, with status 200, 400, 405 or
\* 500, and no exception leaves it
C9_ExactlyOneResponse ==
  /\ ~escaped
  /\ Len(res) <= 1
  /\ Len(res) = 1 <=> Done
  /\ \A k \in 1..Len(res) : res[k].status \in {200, 400, 405, 500}

C9_Witness ==
  /\ Done /\ Len(res) = 1 /\ res[1].status = 500
  /\ pageAnswers # <<>> /\ LastAnswer.status = 200 /\ ~LastAnswer.json

\* C10: a page request is issued only while fewer than maxFetches requests
\* have been made, fewer than targetCount candidates are accumulated, and
\* the previous page (if any) answered with at least one item and a
\* next-page cursor
C10_PagingGuard ==
  [][Len(pageRequests') # Len(pageRequests) =>
       /\ Len(pageRequests') = Len(pageRequests) + 1
       /\ Len(pageRequests) < MAX_FETCHES(impl, req)
       /\ Len(pageRequests') <= MAX_FETCHES(impl, req)
       /\ Len(potentialItems') < maxResultsNeeded(impl, req)
       /\ pageAnswers' # <<>> =>
            /\ pageAnswers'[Len(pageAnswers')].count >= 1
            /\ pageAnswers'[Len(pageAnswers')].cursor]_vars

C10_Witness ==
  /\ Len(pageRequests) = 5 /\ Len(pageAnswers) = 5
  /\ LastAnswer.count >= 1 /\ LastAnswer.cursor
  /\ Len(potentialItems) < maxResultsNeeded(impl, req)

(* ------------------------------------------------------------------ *)
(* The probe stage                                                     *)
(* ------------------------------------------------------------------ *)
ProbesStarted == pc = "awaitProbes" \/ Sent200
Pending == {k \in 1..Len(checks) : checks[k] = "pending"}

\* what the static stage of this request keeps, from the links alone
KeptByStaticStage(it) ==
  (impl = Earlier /\ ~WantsFilter(req)) \/ LinkOf(world.profile, it.rank) = "plain"
StaticallyKept == SelectSeq(potentialItems, KeptByStaticStage)

\* C11: a failed probe gives "not displayable" for its own candidate only:
\* every settled slot holds the verdict of its own target, a pending
\* sibling whose turn has come can still settle, and a request that
\* issued probes ends with 200
C11_FailureIsLocal ==
  /\ \A k \in 1..Len(checks) :
       /\ (checks[k] # "pending" /\ ProbeFailed(probed[k])) => checks[k] = "no"
       /\ checks[k] # "pending" =>
            (checks[k] = "ok" <=> (~ProbeFailed(probed[k])
                                     /\ TargetAllowsFraming(world.profile, probed[k].rank)))
       /\ (pc = "awaitProbes" /\ MaySettle(k)) => ENABLED ProbeSettles(k)
  /\ (Done /\ probed # <<>>) => (Len(res) = 1 /\ res[1].status = 200)

C11_Witness ==
  /\ Sent200 /\ D >= 1 /\ outOfOrder
  /\ \E j, k \in 1..Len(probed) :
       j < k /\ ProbeFailed(probed[j]) /\ checks[k] = "ok"

\* C12: a response is sent only when no probe of the request is in flight
C12_Barrier ==
  /\ Len(checks) = Len(probed)
  /\ Len(res) >= 1 => Pending = {}

C12_Witness ==
  /\ Sent200 /\ Len(probed) >= 2 /\ outOfOrder

\* C13: with N candidates left after the static stage and probe cap C,
\* the probes issued are exactly the first min(N, C) of them, one each, and
\* never more than C are in flight
C13_ProbesIssued ==
  /\ ~ProbesStarted => probed = <<>>
  /\ ProbesStarted =>
       /\ Len(probed) = Min(Len(StaticallyKept), ProbeLimit(impl))
       /\ \A k \in 1..Len(probed) : probed[k] = StaticallyKept[k]
       /\ \A j, k \in 1..Len(probed) : j # k => probed[j] # probed[k]
       /\ Cardinality(Pending) <= ProbeLimit(impl)

C13_Witness ==
  /\ pc = "awaitProbes"
  /\ Len(StaticallyKept) > ProbeLimit(impl)
  /\ Cardinality(Pending) = ProbeLimit(impl)

\* C20: without filterEmbeddable no candidate is removed before probing:
\* the probed candidates are the first min(N, C) upstream candidates, a
\* denylisted one included
C20_FilterOnlyOnRequest ==
  (ProbesStarted /\ ~WantsFilter(req)) =>
    probed = SubSeq(potentialItems, 1, Min(N, ProbeLimit(impl)))

\* C21: a request with a method other than POST is answered 405 with an
\* Allow: POST header, whatever its body, and causes no upstream page
\* request and no probe
C21_NonPostIs405 ==
  req.method # "POST" =>
    /\ pageRequests = <<>> /\ probed = <<>> /\ checks = <<>>
    /\ Done => (res = <<Response(405, <<>>, TRUE, FALSE)>> /\ ~escaped)

C21_Witness ==
  /\ Done /\ req.method = "GET" /\ req.body.parsed /\ req.body.query = "test"
  /\ env.apiKey /\ env.cx /\ Len(res) = 1 /\ res[1].status = 405 /\ res[1].allow

\* C22: a POST with a non-empty query while the key or the engine id is not
\* configured is answered 500 with an error body and causes no network
\* call; an empty query with missing credentials is answered 400
C22_MissingCredentialsIs500 ==
  (req.method = "POST" /\ req.body.parsed /\ (~env.apiKey \/ ~env.cx)) =>
    /\ pageRequests = <<>> /\ probed = <<>> /\ checks = <<>>
    /\ Done => /\ ~escaped
               /\ res = <<Response(IF req.body.query = "test" THEN 500 ELSE 400,
                                    <<>>, FALSE, FALSE)>>

C22_Witness ==
  /\ Done /\ req.method = "POST" /\ req.body.query = "test"
  /\ env.apiKey /\ ~env.cx /\ Len(res) = 1 /\ res[1].status = 500

\* C29: the offsets of the page requests of a request start at 1 and are
\* strictly increasing, whatever cursor the upstream returns
C29_OffsetsIncrease ==
  /\ pageRequests # <<>> => pageRequests[1] = 1
  /\ \A i, j \in 1..Len(pageRequests) : i < j => pageRequests[i] < pageRequests[j]

\* C30: at most one page request is in flight at any time, and no probe is
\* issued before the last page request has resolved
C30_StagesInSequence ==
  [][/\ Len(pageRequests') - Len(pageAnswers') \in {0, 1}
     /\ (pc' = "awaitProbes" \/ checks' # <<>>) =>
          Len(pageRequests') = Len(pageAnswers')
     /\ pc = "awaitProbes" => pageRequests' = pageRequests]_vars

C30_Witness ==
  /\ pc = "awaitProbes" /\ Len(pageRequests) >= 2 /\ Len(checks) > 0
  /\ Len(pageAnswers) = Len(pageRequests)
  /\ \E k \in 1..Len(checks) : checks[k] = "pending"

\* C31: without filterEmbeddable exactly one page is requested (target 10),
\* with it at most 5 pages, and none once 30 candidates are held
C31_PagingPolicy ==
  pageRequests # <<>> =>
    IF WantsFilter(req)
      THEN /\ Len(pageRequests) <= 5
           /\ pc = "awaitPage" => Len(potentialItems) < 30
      ELSE Len(pageRequests) = 1

RECURSIVE CountBefore(_)
\* the number of items the upstream returned in the pages before page i
CountBefore(i) ==
  IF i <= 1 THEN 0 ELSE CountBefore(i - 1) + pageAnswers[i - 1].count

\* the objects the upstream returned in the answered pages of this request
UpstreamObjects ==
  UNION {{[id |-> CountBefore(i) + j, rank |-> pageRequests[i] + j - 1] :
            j \in 1..pageAnswers[i].count} : i \in 1..Len(pageAnswers)}

\* C32: every item of a 200 response is one of the objects the upstream
\* returned during this request, unchanged
C32_ItemsAreUpstreamObjects ==
  Sent200 => \A k \in 1..Len(Items) : Items[k] \in UpstreamObjects

C32_Witness ==
  /\ Sent200 /\ impl = Documented /\ Len(pageAnswers) >= 2 /\ Len(Items) = OutputCap
  /\ \E k \in 1..Len(Items) : TrulyDisplayable(Items[k])
  /\ \E k \in 1..Len(Items) : ~WasProbed(Items[k])

\* C33: no upstream result occurs twice in a response
C33_NoDuplicates ==
  Sent200 =>
    \A i, j \in 1..Len(Items) : i # j => Items[i].rank # Items[j].rank

\* C34: in the documented revision a candidate on the denylist or without a
\* link is never probed and is never in the displayable part of the
\* response; in a response it comes after every displayable item
C34_RejectedOnlyAsBackfill ==
  impl = Documented =>
    /\ \A k \in 1..Len(probed) : LinkOf(world.profile, probed[k].rank) = "plain"
    /\ Sent200 =>
         /\ \A k \in 1..Len(Items) :
              LinkOf(world.profile, Items[k].rank) # "plain" =>
                ~Includes(finalItems(probed, checks), Items[k])
         /\ \A i, j \in 1..Len(Items) :
              (i < j /\ LinkOf(world.profile, Items[i].rank) # "plain") =>
                ~Includes(finalItems(probed, checks), Items[j])

C34_Witness ==
  /\ Sent200 /\ impl = Documented /\ world.profile = "denyHead"
  /\ \E i, j \in 1..Len(Items) :
       /\ i < j
       /\ Includes(finalItems(probed, checks), Items[i])
       /\ LinkOf(world.profile, Items[j].rank) = "denylisted"

(* ------------------------------------------------------------------ *)
(* isEmbeddable on URL strings                                         *)
(* ------------------------------------------------------------------ *)
nonEmbeddableDomains ==
  <<"facebook.com", "twitter.com", "instagram.com",
    "linkedin.com", "youtube.com", "netflix.com",
    "amazon.com", "ebay.com", "reddit.com">>

Uppers == "ABCDEFGHIJKLMNOPQRSTUVWXYZ"
Lowers == "abcdefghijklmnopqrstuvwxyz"
CharAt(str, i) == SubSeq(str, i, i)

LowerChar(c) ==
  IF \E i \in 1..Len(Uppers) : CharAt(Uppers, i) = c
    THEN CharAt(Lowers, CHOOSE i \in 1..Len(Uppers) : CharAt(Uppers, i) = c)
    ELSE c

UpperChar(c) ==
  IF \E i \in 1..Len(Lowers) : CharAt(Lowers, i) = c
    THEN CharAt(Uppers, CHOOSE i \in 1..Len(Lowers) : CharAt(Lowers, i) = c)
    ELSE c

RECURSIVE toLowerCase(_)
toLowerCase(str) ==
  IF Len(str) = 0 THEN ""
  ELSE LowerChar(CharAt(str, 1)) \o toLowerCase(SubSeq(str, 2, Len(str)))

RECURSIVE toUpperCase(_)
toUpperCase(str) ==
  IF Len(str) = 0 THEN ""
  ELSE UpperChar(CharAt(str, 1)) \o toUpperCase(SubSeq(str, 2, Len(str)))

StartsWith(str, t) == Len(str) >= Len(t) /\ SubSeq(str, 1, Len(t)) = t

\* the denylisted domain must end the host
StrEndsWith(str, t) ==
  Len(str) >= Len(t) /\ SubSeq(str, Len(str) - Len(t) + 1, Len(str)) = t

\* String.prototype.includes
StrIncludes(str, t) ==
  \E i \in 1..(Len(str) - Len(t) + 1) : SubSeq(str, i, i + Len(t) - 1) = t

\* the end of the host in the text after the scheme: before the first "/"
HostEnd(rest) ==
  IF \E i \in 1..Len(rest) : CharAt(rest, i) = "/"
    THEN (CHOOSE i \in 1..Len(rest) :
            CharAt(rest, i) = "/" /\ \A j \in 1..(i - 1) : CharAt(rest, j) # "/") - 1
    ELSE Len(rest)

\* new URL(url): throws without a scheme, with an empty host or with a
\* space in the host; the hostname of an http(s) URL comes out lower-cased
ParseURL(url) ==
  LET rest == IF StartsWith(url, "https://") THEN SubSeq(url, 9, Len(url))
              ELSE IF StartsWith(url, "http://") THEN SubSeq(url, 8, Len(url))
              ELSE ""
      host == SubSeq(rest, 1, HostEnd(rest))
  IN  IF Len(host) = 0 \/ StrIncludes(host, " ")
        THEN [ok |-> FALSE, hostname |-> ""]
        ELSE [ok |-> TRUE, hostname |-> toLowerCase(host)]

\* isEmbeddable(url) of the source, on the text of the URL
isEmbeddableUrl(url) ==
  LET urlObj == ParseURL(url)
  IN  IF ~urlObj.ok THEN FALSE
      ELSE LET domain == toLowerCase(urlObj.hostname)
           IN  ~\E k \in 1..Len(nonEmbeddableDomains) :
                   StrIncludes(domain, nonEmbeddableDomains[k])

\* the URLs tried: scheme, host built around a domain, path
Denylisted == {nonEmbeddableDomains[k] : k \in 1..Len(nonEmbeddableDomains)}
OtherDomains == {"example.org", "amazon.co.uk", "fb.com", "exa mple.org"}

UrlParts ==
  [scheme : {"https://", "http://", "", "//"},
   prefix : {"", "www.", "m.", "not"},
   domain : Denylisted \cup OtherDomains,
   suffix : {"", ".evil.net"},
   path : {"", "/watch?v=1", "/r/reddit.com"},
   upper : BOOLEAN]

BuildUrl(p) ==
  LET host == p.prefix \o p.domain \o p.suffix
  IN  p.scheme \o (IF p.upper THEN toUpperCase(host) ELSE host) \o p.path

\* the handler is not running
HandlerOff ==
  /\ impl = Documented
  /\ req = [method |-> "POST", body |-> NullBody]
  /\ env = [apiKey |-> FALSE, cx |-> FALSE]
  /\ world = [total |-> 0, cursor |-> "never", profile |-> "allOk"]
  /\ pc = "off"
  /\ potentialItems = <<>>
  /\ start = 1
  /\ fetchCount = 0
  /\ pageAnswers = <<>>
  /\ probed = <<>>
  /\ checks = <<>>
  /\ pageRequests = <<>>
  /\ res = <<>>
  /\ escaped = FALSE
  /\ outOfOrder = FALSE

handlerVars ==
  <<impl, req, env, world, pc, potentialItems, start, fetchCount, pageAnswers,
    probed, checks, pageRequests, res, escaped, outOfOrder>>

InitFilter ==
  /\ HandlerOff
  /\ probe = ProbeOff
  /\ mongo = MongoOff
  /\ track = TrackOff
  /\ page = PageOff
  /\ filt \in {[pc |-> "call", parts |-> p, url |-> BuildUrl(p), result |-> FALSE] :
                 p \in UrlParts}

\* the call returns
FilterReturns ==
  /\ filt.pc = "call"
  /\ filt' = [filt EXCEPT !.pc = "returned", !.result = isEmbeddableUrl(filt.url)]
  /\ UNCHANGED <<handlerVars, probe, mongo, track, page>>

NextFilter == FilterReturns

SpecFilter == InitFilter /\ [][NextFilter]_vars

\* what the parts of the URL say, without reading its text
PartsParse(p) == p.scheme \in {"https://", "http://"} /\ p.domain # "exa mple.org"
PartsDenylisted(p) == p.domain \in Denylisted

\* C19: the static filter returns false for every URL whose lower-cased
\* host contains a denylisted domain and for every string that does not
\* parse as a URL, true for every other URL, and issues no network call
C19_StaticFilter ==
  filt.pc = "returned" =>
    /\ filt.result = (PartsParse(filt.parts) /\ ~PartsDenylisted(filt.parts))
    /\ pageRequests = <<>> /\ probed = <<>> /\ probe = ProbeOff

C19_Witness ==
  /\ filt.pc = "returned" /\ ~filt.result
  /\ PartsParse(filt.parts) /\ PartsDenylisted(filt.parts)
  /\ filt.parts.upper /\ filt.parts.prefix = "not" /\ filt.parts.suffix = ".evil.net"

(* ------------------------------------------------------------------ *)
(* isDisplayable: one HEAD probe with its timeout                      *)
(* ------------------------------------------------------------------ *)
\* value === 'DENY' || value === 'SAMEORIGIN' without toUpperCase
XfoBlocksCaseSensitive(xfo) == xfo \in {"DENY", "SAMEORIGIN"}

\* xFrameOpts && (toUpperCase is DENY or SAMEORIGIN)
XfoBlocks(xfo) == xfo # "" /\ toUpperCase(xfo) \in {"DENY", "SAMEORIGIN"}

IsSpace(c) == c \in {" ", "\t"}

\* /frame-ancestors ('none'|'self')/i: one space only
CspBlocksSingleSpace(csp) ==
  LET low == toLowerCase(csp)
  IN  \E i \in 1..(Len(low) - 21) :
        /\ SubSeq(low, i, i + 14) = "frame-ancestors"
        /\ CharAt(low, i + 15) = " "
        /\ SubSeq(low, i + 16, i + 21) \in {"'none'", "'self'"}

\* csp && /frame-ancestors\s+('none'|'self')/i.test(csp)
CspBlocks(csp) ==
  LET low == toLowerCase(csp)
  IN  /\ csp # ""
      /\ \E i \in 1..Len(low) :
           /\ i + 14 <= Len(low)
           /\ SubSeq(low, i, i + 14) = "frame-ancestors"
           /\ \E n \in 1..(Len(low) - i - 14) :
                /\ \A j \in (i + 15)..(i + 14 + n) : IsSpace(CharAt(low, j))
                /\ i + 14 + n + 6 <= Len(low)
                /\ SubSeq(low, i + 15 + n, i + 14 + n + 6) \in {"'none'", "'self'"}

\* the verdict on an answer: status, then X-Frame-Options, then CSP
Classify(status, xfo, csp) ==
  IF status >= 400 THEN FALSE
  ELSE IF XfoBlocks(xfo) THEN FALSE
  ELSE IF CspBlocks(csp) THEN FALSE
  ELSE TRUE

\* no setTimeout: nothing bounds the wait
TimerNeverSet == "none"

\* setTimeout(() => controller.abort(), 3500)
TimerAfterStart == "armed"

Statuses == {200, 304, 404, 500}
XfoValues ==
  {"", "DENY", "deny", "SameOrigin", "ALLOWALL", "ALLOW-FROM https://a.example"}

CspParts ==
  [pre : {"", "default-src 'self'; "},
   name : {"", "frame-ancestors", "Frame-Ancestors"},
   gap : {"", " ", " \t "},
   value : {"'none'", "'Self'", "https://a.example"},
   post : {"", " https://a.example"}]

\* the header text; without a directive name only the other directives
BuildCsp(p) ==
  IF p.name = "" THEN p.pre ELSE p.pre \o p.name \o p.gap \o p.value \o p.post

\* a target that answers with headers, one that fails at once (refused
\* connection, DNS, unparsable URL), one that never answers
ProbeCalls ==
  {[pc |-> "start", target |-> "answers", status |-> st, xfo |-> x,
    cspParts |-> p, csp |-> BuildCsp(p),
    timer |-> "none", request |-> "none", result |-> FALSE] :
      st \in Statuses, x \in XfoValues, p \in CspParts}
  \cup
  {[ProbeOff EXCEPT !.pc = "start", !.target = t] : t \in {"fails", "silent"}}

InitProbe ==
  /\ HandlerOff
  /\ filt = FiltOff
  /\ mongo = MongoOff
  /\ track = TrackOff
  /\ page = PageOff
  /\ probe \in ProbeCalls

\* new AbortController, setTimeout, fetch(url, { method: 'HEAD', signal })
ProbeStart ==
  /\ probe.pc = "start"
  /\ probe' = [probe EXCEPT !.pc = "inflight", !.timer = TimerAfterStart,
                            !.request = "inflight"]
  /\ UNCHANGED <<handlerVars, filt, mongo, track, page>>

\* the fetch resolves: clearTimeout, then the checks on status and headers
TargetAnswers ==
  /\ probe.pc = "inflight" /\ probe.target = "answers"
  /\ probe' = [probe EXCEPT !.pc = "returned", !.timer = "cleared",
                            !.request = "answered",
                            !.result = Classify(probe.status, probe.xfo, probe.csp)]
  /\ UNCHANGED <<handlerVars, filt, mongo, track, page>>

\* the fetch rejects with a network error: the catch returns false
FetchFails ==
  /\ probe.pc = "inflight" /\ probe.target = "fails"
  /\ probe' = [probe EXCEPT !.pc = "returned", !.request = "failed",
                            !.result = FALSE]
  /\ UNCHANGED <<handlerVars, filt, mongo, track, page>>

\* the timer runs controller.abort(): a fetch in flight rejects with
\* AbortError and the catch returns false; a settled fetch is not affected
TimerFires ==
  /\ probe.timer = "armed"
  /\ probe' = IF probe.pc = "inflight"
                THEN [probe EXCEPT !.timer = "fired", !.pc = "returned",
                                   !.request = "aborted", !.result = FALSE]
                ELSE [probe EXCEPT !.timer = "fired"]
  /\ UNCHANGED <<handlerVars, filt, mongo, track, page>>

NextProbe == ProbeStart \/ TargetAnswers \/ FetchFails \/ TimerFires

SpecProbe == InitProbe /\ [][NextProbe]_vars

ProbeReturned == probe.pc = "returned"
ProbeAnswered == ProbeReturned /\ probe.request = "answered"
\* the directive as the parts spell it: name, at least one space, keyword
DirectiveStartsBlocking(p) ==
  p.name # "" /\ p.gap # "" /\ p.value \in {"'none'", "'Self'"}
DirectiveIsExactlyBlocking(p) == DirectiveStartsBlocking(p) /\ p.post = ""

\* C14: an answer whose X-Frame-Options is DENY or SAMEORIGIN in any
\* casing is not displayable, whatever its status
C14_XfoBlocks ==
  (ProbeAnswered /\ probe.xfo \in {"DENY", "deny", "SameOrigin"}) => ~probe.result

C14_Witness ==
  /\ ProbeAnswered /\ probe.xfo = "SameOrigin" /\ probe.status = 200
  /\ probe.cspParts.name = "" /\ ~probe.result

\* C15: an answer whose CSP holds frame-ancestors 'none' or 'self', with
\* any run of whitespace after the directive name and in any casing, is
\* not displayable
C15_CspBlocks ==
  (ProbeAnswered /\ DirectiveStartsBlocking(probe.cspParts)) => ~probe.result

C15_Witness ==
  /\ ProbeAnswered /\ probe.status = 200 /\ probe.xfo = "" /\ ~probe.result
  /\ probe.cspParts.name = "Frame-Ancestors" /\ probe.cspParts.gap = " \t "
  /\ probe.cspParts.value = "'Self'" /\ probe.cspParts.pre # ""

\* C16: an answer below 400 without a blocking X-Frame-Options whose
\* frame-ancestors directive is absent or not exactly 'none' or 'self' is
\* displayable
C16_OtherwiseDisplayable ==
  (ProbeAnswered /\ probe.status < 400
     /\ probe.xfo \notin {"DENY", "deny", "SameOrigin"}
     /\ ~DirectiveIsExactlyBlocking(probe.cspParts)) => probe.result

\* C18: when a probe has returned its timer has fired or been cleared and
\* its request is no longer in flight
C18_NothingLeftBehind ==
  ProbeReturned =>
    /\ probe.timer \in {"fired", "cleared"}
    /\ probe.request \in {"answered", "failed", "aborted"}

(* ------------------------------------------------------------------ *)
(* Progress: a request, or a probe, under fair scheduling              *)
(* ------------------------------------------------------------------ *)
\* either a request is followed through the handler, or one probe
InitLive == Init \/ InitProbe

NextLive == Next \/ NextProbe

\* every upstream page request settles and the event loop runs what is
\* ready (WF on the handler's steps); a probe that was called starts and
\* an armed timer fires.  A target is not obliged to answer or to fail.
SpecLive ==
  /\ InitLive
  /\ [][NextLive]_vars
  /\ WF_vars(Next)
  /\ WF_vars(ProbeStart)
  /\ WF_vars(TimerFires)

\* C17: every probe returns a verdict, by the timeout when its target never
\* answers (timer fired, request aborted, not displayable), and every
\* request whose page requests settle gets its response
C17_EventuallyAnswered ==
  /\ <>(Done \/ ProbeReturned)
  /\ [](ProbeReturned /\ probe.target = "silent" =>
          probe.timer = "fired" /\ probe.request = "aborted" /\ ~probe.result)

C17_Witness ==
  /\ ProbeReturned /\ probe.target = "silent"
  /\ probe.timer = "fired" /\ probe.request = "aborted"

(* ------------------------------------------------------------------ *)
(* lib/mongodb.js: connectToDatabase and its cache                     *)
(*                                                                     *)
(* A call runs without interruption up to `await cached.promise`.  The *)
(* settling of MongoClient.connect and the reactions it queues (the    *)
(* .catch handler, then the continuation of every waiting caller) run  *)
(* as microtasks; the queue is drained before the event loop starts    *)
(* another request, so a call never runs between two of them.          *)
(* ------------------------------------------------------------------ *)
\* callers of connectToDatabase, and the most connection attempts followed
NumCallers == 3
MaxAttempts == 3

Callers == 1..NumCallers
Attempts == 1..MaxAttempts

IdleCaller == [pc |-> "idle", on |-> 0, got |-> 0]

\* cached = { conn: null, promise: null }; 0 stands for null, n for the
\* connection (or the promise) of the n-th attempt
MongoStart ==
  [pc |-> "on", conn |-> 0, promise |-> 0, started |-> 0, inflight |-> {},
   outcome |-> [a \in Attempts |-> "none"],
   callers |-> [c \in Callers |-> IdleCaller],
   waiters |-> <<>>, queue |-> <<>>]

InitMongo ==
  /\ HandlerOff
  /\ probe = ProbeOff
  /\ filt = FiltOff
  /\ track = TrackOff
  /\ page = PageOff
  /\ mongo = MongoStart

\* an attempt is started whenever no connection is cached
NeedsAttemptIgnoringPromise(m) == TRUE

\* if (!cached.promise)
NeedsAttempt(m) == m.promise = 0

\* the rejected promise stays in the cache
AfterFailureKeepsPromise(m) == m

\* cached.promise = null, in the .catch handler and in the caller's catch
AfterFailure(m) == [m EXCEPT !.promise = 0]

\* the continuations of the callers waiting on attempt a, in the order they
\* began to wait
ResumesOf(m, a, how) ==
  LET OnA(c) == m.callers[c].on = a
      ws == SelectSeq(m.waiters, OnA)
  IN  [k \in 1..Len(ws) |-> [kind |-> "resume", who |-> ws[k], id |-> a, how |-> how]]

\* connectToDatabase() up to its return or its await
MongoCall(c) ==
  /\ mongo.pc = "on"
  /\ mongo.queue = <<>>
  /\ mongo.callers[c].pc # "waiting"
  /\ IF mongo.conn # 0
       THEN mongo' = [mongo EXCEPT !.callers[c] =
                        [pc |-> "returned", on |-> 0, got |-> mongo.conn]]
       ELSE LET fresh == NeedsAttempt(mongo)
                a == IF fresh THEN mongo.started + 1 ELSE mongo.promise
                m1 == IF fresh
                        THEN [mongo EXCEPT !.started = a, !.promise = a,
                                           !.inflight = @ \cup {a},
                                           !.outcome[a] = "pending"]
                        ELSE mongo
                m2 == [m1 EXCEPT !.callers[c] = [pc |-> "waiting", on |-> a, got |-> 0],
                                 !.waiters = Append(@, c)]
            IN  /\ fresh => mongo.started < MaxAttempts
                /\ mongo' = IF m2.outcome[a] = "pending"
                              THEN m2
                              ELSE [m2 EXCEPT !.queue =
                                      <<[kind |-> "resume", who |-> c, id |-> a,
                                         how |-> m2.outcome[a]]>>]
  /\ UNCHANGED <<handlerVars, probe, filt, track, page>>

\* MongoClient.connect resolves: .then builds { client, db } and the
\* waiting callers are resumed with it
AttemptSucceeds(a) ==
  /\ mongo.pc = "on"
  /\ mongo.queue = <<>>
  /\ a \in mongo.inflight
  /\ mongo' = [mongo EXCEPT !.inflight = @ \ {a}, !.outcome[a] = "ok",
                            !.queue = ResumesOf(mongo, a, "ok")]
  /\ UNCHANGED <<handlerVars, probe, filt, track, page>>

\* MongoClient.connect rejects: the .catch handler is queued
AttemptFails(a) ==
  /\ mongo.pc = "on"
  /\ mongo.queue = <<>>
  /\ a \in mongo.inflight
  /\ mongo' = [mongo EXCEPT !.inflight = @ \ {a}, !.outcome[a] = "failed",
                            !.queue = <<[kind |-> "catch", who |-> 0, id |-> a,
                                         how |-> "failed"]>>]
  /\ UNCHANGED <<handlerVars, probe, filt, track, page>>

\* the next microtask: the .catch handler (reset, rethrow, which rejects the
\* cached promise and queues its waiters), or a caller's continuation
\* (cached.conn = value and return; or reset and throw)
RunMicrotask ==
  /\ mongo.pc = "on"
  /\ mongo.queue # <<>>
  /\ LET t == Head(mongo.queue)
         rest == [mongo EXCEPT !.queue = Tail(@)]
         Others(c) == c # t.who
         left == [rest EXCEPT !.waiters = SelectSeq(@, Others)]
     IN  mongo' =
           IF t.kind = "catch"
             THEN [AfterFailure(rest) EXCEPT
                     !.queue = @ \o ResumesOf(mongo, t.id, "failed")]
           ELSE IF t.how = "ok"
             THEN [left EXCEPT !.conn = t.id,
                               !.callers[t.who] =
                                 [pc |-> "returned", on |-> t.id, got |-> t.id]]
           ELSE [AfterFailure(left) EXCEPT
                   !.callers[t.who] = [pc |-> "threw", on |-> t.id, got |-> 0]]
  /\ UNCHANGED <<handlerVars, probe, filt, track, page>>

NextMongo ==
  \/ \E c \in Callers : MongoCall(c)
  \/ \E a \in Attempts : AttemptSucceeds(a)
  \/ \E a \in Attempts : AttemptFails(a)
  \/ RunMicrotask

SpecMongo == InitMongo /\ [][NextMongo]_vars

\* C25: an attempt is started only when no connection is cached and no
\* attempt is in flight; at most one attempt is in flight; a caller that
\* arrives during an attempt waits on that attempt; once a connection is
\* cached it stays, no attempt is started, and every call returns it
C25_SingleAttempt ==
  [][/\ Cardinality(mongo'.inflight) <= 1
     /\ mongo'.started > mongo.started =>
          /\ mongo.conn = 0 /\ mongo.inflight = {}
          /\ mongo'.started = mongo.started + 1
     /\ \A c \in Callers :
          (mongo.callers[c].pc # "waiting" /\ mongo'.callers[c].pc = "waiting"
             /\ mongo.inflight # {}) =>
            /\ mongo'.callers[c].on \in mongo.inflight
            /\ mongo'.started = mongo.started
     /\ mongo.conn # 0 =>
          /\ mongo'.conn = mongo.conn
          /\ mongo'.started = mongo.started
          /\ \A c \in Callers :
               mongo'.callers[c] # mongo.callers[c] =>
                 /\ mongo'.callers[c].pc = "returned"
                 /\ mongo'.callers[c].got = mongo.conn]_vars

\* two callers shared the first attempt, and a later call got its connection
C25_Witness ==
  /\ mongo.pc = "on" /\ mongo.queue = <<>> /\ mongo.started = 1 /\ mongo.conn = 1
  /\ mongo.callers[1] = [pc |-> "returned", on |-> 1, got |-> 1]
  /\ mongo.callers[2] = [pc |-> "returned", on |-> 1, got |-> 1]
  /\ mongo.callers[3] = [pc |-> "returned", on |-> 0, got |-> 1]

\* C26: after a failed attempt every caller that waited on it has the
\* failure, no connection of that attempt is cached, and the cache holds no
\* promise, so that the next call starts a fresh attempt
C26_FailureNotCached ==
  (mongo.pc = "on" /\ mongo.queue = <<>>) =>
    /\ \A c \in Callers :
         (mongo.callers[c].on # 0 /\ mongo.outcome[mongo.callers[c].on] = "failed")
           => mongo.callers[c].pc = "threw"
    /\ mongo.conn # 0 => mongo.outcome[mongo.conn] = "ok"
    /\ (mongo.conn = 0 /\ mongo.inflight = {}) => mongo.promise = 0
    /\ (mongo.conn = 0 /\ mongo.inflight = {} /\ mongo.started < MaxAttempts) =>
         \A c \in Callers : mongo.callers[c].pc # "waiting"

\* the first attempt failed for its two waiters; the next call started the
\* second attempt
C26_Witness ==
  /\ mongo.pc = "on" /\ mongo.queue = <<>>
  /\ mongo.outcome[1] = "failed" /\ mongo.outcome[2] = "pending"
  /\ mongo.callers[1] = [pc |-> "threw", on |-> 1, got |-> 0]
  /\ mongo.callers[2] = [pc |-> "threw", on |-> 1, got |-> 0]
  /\ mongo.callers[3] = [pc |-> "waiting", on |-> 2, got |-> 0]
  /\ mongo.promise = 2 /\ mongo.inflight = {2}

(* ------------------------------------------------------------------ *)
(* pages/api/track-data/[userID].js: the tracking endpoint             *)
(*                                                                     *)
(* Times are milliseconds; 0 stands for a missing field or null.       *)
(* Durations are kept in hundredths of a second.                       *)
(* ------------------------------------------------------------------ *)
TrackDocumented == "unnamed/part_006"
TrackEarlier == "pages/api/track-data/[userID].js"

\* the latest server time followed, and the most requests followed
MaxClock == 2
MaxSubmits == 2

Sessions == {"u1", "u2"}

\* entries of a payload: a search with and without a timestamp, a click
\* with both times and a stated duration that differs from the computed
\* one, and a click without times
SearchEntries ==
  {[query |-> "q", timestamp |-> 1000], [query |-> "q", timestamp |-> 0]}
ClickEntries ==
  {[url |-> "a", startTime |-> 1000, endTime |-> 3499, duration |-> 0],
   [url |-> "b", startTime |-> 0, endTime |-> 0, duration |-> 120]}

SeqsUpTo2(S) == {<<>>} \cup {<<x>> : x \in S} \cup {<<x, y>> : x \in S, y \in S}

\* the body object: sessionId ("" when absent), searches and clicks (absent
\* fields are flagged)
Payloads ==
  [sessionId : {"", "u2"},
   hasSearches : BOOLEAN, searches : SeqsUpTo2(SearchEntries),
   hasClicks : BOOLEAN, clicks : SeqsUpTo2(ClickEntries)]

WellFormed(pl) ==
  /\ ~pl.hasSearches => pl.searches = <<>>
  /\ ~pl.hasClicks => pl.clicks = <<>>

\* req.body: the object, its JSON text, a text that is not JSON, the JSON
\* text of a number, null, a number, an array (an object to typeof, without
\* searches or clicks)
BodyKinds ==
  {"object", "text", "badText", "numberText", "null", "number", "array"}

TrackRequests ==
  [method : {"POST", "GET"}, userID : Sessions \cup {""}, kind : BodyKinds,
   db : {"ok", "connectFails", "updateFails"}]

TrackStart(rev, pl) ==
  [pc |-> "on", rev |-> rev, payload |-> pl, clock |-> 1, coll |-> <<>>,
   submits |-> 0, connects |-> 0, writes |-> 0, responses |-> 0, status |-> 0,
   log |-> FALSE, last |-> [method |-> "", userID |-> "", kind |-> "", db |-> ""],
   stored |-> [u \in Sessions |-> 0],
   once |-> [u \in Sessions |-> [searches |-> <<>>, clicks |-> <<>>]]]

InitTrack ==
  /\ HandlerOff
  /\ probe = ProbeOff
  /\ filt = FiltOff
  /\ mongo = MongoOff
  /\ page = PageOff
  /\ track \in {TrackStart(rev, pl) :
                  rev \in {TrackDocumented, TrackEarlier},
                  pl \in {q \in Payloads : WellFormed(q)}}

\* parseFloat(((end - start) / 1000).toFixed(2)), and in the earlier
\* revision Math.round((end - start) / 1000)
DurationOf(rev, startTime, endTime) ==
  IF rev = TrackDocumented
    THEN (endTime - startTime + 5) \div 10
    ELSE ((endTime - startTime + 500) \div 1000) * 100

\* the click as it is stored
SanitizeClick(rev, click) ==
  [url |-> click.url, startTime |-> click.startTime, endTime |-> click.endTime,
   duration |-> IF click.startTime # 0 /\ click.endTime # 0
                  THEN DurationOf(rev, click.startTime, click.endTime)
                  ELSE click.duration]

\* the search as it is stored: a missing timestamp becomes new Date()
SanitizeSearch(search, now) ==
  [query |-> search.query,
   timestamp |-> IF search.timestamp # 0 THEN search.timestamp ELSE now]

RECURSIVE AddToSet(_, _)
\* $addToSet with $each: an element is appended unless an equal one is there
AddToSet(arr, each) ==
  IF each = <<>> THEN arr
  ELSE AddToSet(IF Includes(arr, Head(each)) THEN arr ELSE Append(arr, Head(each)),
                Tail(each))

Matches(coll, sid) == {i \in 1..Len(coll) : coll[i].sessionId = sid}

\* updateOne({ sessionId }, { $set, $addToSet, $setOnInsert }, { upsert })
UpdateOne(coll, sid, searches, clicks, now) ==
  IF Matches(coll, sid) # {}
    THEN LET i == CHOOSE k \in Matches(coll, sid) : \A j \in Matches(coll, sid) : k <= j
         IN  [coll EXCEPT ![i] = [@ EXCEPT !.lastUpdated = now,
                                           !.searches = AddToSet(@, searches),
                                           !.clicks = AddToSet(@, clicks)]]
    ELSE Append(coll, [sessionId |-> sid, firstSeen |-> now, lastUpdated |-> now,
                       searches |-> AddToSet(<<>>, searches),
                       clicks |-> AddToSet(<<>>, clicks)])

\* the events stored for a session
StoredEvents(coll, sid) ==
  IF Matches(coll, sid) = {} THEN [searches |-> <<>>, clicks |-> <<>>]
  ELSE LET i == CHOOSE k \in Matches(coll, sid) : TRUE
       IN  [searches |-> coll[i].searches, clicks |-> coll[i].clicks]

\* res.status(status).json(...) for the request rq: responses counts the
\* responses sent, status is that of the latest; where requests are logged,
\* last is the request answered
TrackRespond(rq, status) ==
  [track EXCEPT !.submits = @ + 1, !.responses = @ + 1, !.status = status,
                !.last = IF track.log THEN rq ELSE @]

\* server time passes
TrackTick ==
  /\ track.pc = "on"
  /\ track.clock < MaxClock
  /\ track' = [track EXCEPT !.clock = @ + 1]
  /\ UNCHANGED <<handlerVars, probe, filt, mongo, page>>

\* typeof is not tested: only a text that does not parse is refused
RejectionTrustsBody(rq) ==
  IF rq.method # "POST" THEN 405
  ELSE IF rq.userID = "" THEN 400
  ELSE IF rq.kind = "badText" THEN 400
  ELSE 0

\* the status that refuses the request before the database is used, 0 when
\* it is not refused: method, userID, JSON.parse of a text body, then
\* !trackingData || typeof trackingData !== 'object'
Rejection(rq) ==
  IF rq.method # "POST" THEN 405
  ELSE IF rq.userID = "" THEN 400
  ELSE IF rq.kind = "badText" THEN 400
  ELSE IF rq.kind \in {"numberText", "null", "number"} THEN 400
  ELSE 0

\* the session named in the body is used when there is one
SessionKeyFromBody(urlId, bodyId) == IF bodyId # "" THEN bodyId ELSE urlId

\* trackingData.sessionId = userID; the filter and $setOnInsert use userID
SessionKey(urlId, bodyId) == urlId

\* the fields the handler reads from the body
BodyFields(rq, pl) ==
  IF rq.kind \in {"object", "text"} THEN pl
  ELSE [sessionId |-> "", hasSearches |-> FALSE, searches |-> <<>>,
        hasClicks |-> FALSE, clicks |-> <<>>]

\* one request to the endpoint, from the method test to the response
TrackHandle(rq) ==
  /\ track.pc = "on"
  /\ track.submits < MaxSubmits
  /\ track' =
       IF Rejection(rq) # 0 THEN TrackRespond(rq, Rejection(rq))
       ELSE IF rq.db = "connectFails"
         THEN [TrackRespond(rq, 500) EXCEPT !.connects = @ + 1]
       ELSE IF rq.db = "updateFails"
         THEN [TrackRespond(rq, 500) EXCEPT !.connects = @ + 1]
       ELSE LET now == track.clock
                body == BodyFields(rq, track.payload)
                sid == SessionKey(rq.userID, body.sessionId)
                Clean(k) == SanitizeClick(track.rev, k)
                Stamp(x) == SanitizeSearch(x, now)
                clicks == [k \in 1..Len(body.clicks) |-> Clean(body.clicks[k])]
                searches == [k \in 1..Len(body.searches) |-> Stamp(body.searches[k])]
                coll == UpdateOne(track.coll, sid, searches, clicks, now)
                first == track.stored[rq.userID] = 0
            IN  [TrackRespond(rq, 200) EXCEPT
                   !.connects = @ + 1, !.writes = @ + 1, !.coll = coll,
                   !.stored[rq.userID] = @ + 1,
                   !.once[rq.userID] =
                     IF first THEN StoredEvents(coll, rq.userID) ELSE @]
  /\ UNCHANGED <<handlerVars, probe, filt, mongo, page>>

NextTrack ==
  \/ TrackTick
  \/ \E rq \in TrackRequests : TrackHandle(rq)

SpecTrack == InitTrack /\ [][NextTrack]_vars

\* the documented endpoint with the answered request logged, for payloads of
\* at most one search and one click
LoggedPayloads ==
  {pl \in Payloads :
     pl.hasSearches /\ pl.hasClicks /\ Len(pl.searches) <= 1 /\ Len(pl.clicks) <= 1}

InitTrackLog ==
  /\ HandlerOff
  /\ probe = ProbeOff
  /\ filt = FiltOff
  /\ mongo = MongoOff
  /\ page = PageOff
  /\ track \in {[TrackStart(TrackDocumented, pl) EXCEPT !.log = TRUE] :
                  pl \in LoggedPayloads}

SpecTrackLog == InitTrackLog /\ [][NextTrack]_vars

\* C24: however often the payload has been stored for a session, the
\* session has one document and its searches and clicks are what the first
\* submission stored
C24_Idempotent ==
  track.pc = "on" =>
    \A u \in Sessions :
      track.stored[u] >= 1 =>
        /\ Cardinality(Matches(track.coll, u)) = 1
        /\ StoredEvents(track.coll, u) = track.once[u]

\* the documents of session u, in the order of the collection
DocsOf(coll, u) == SelectSeq(coll, LAMBDA d : d.sessionId = u)

\* C37: a request changes and creates session documents of the user id of
\* its URL only, whatever sessionId its body names: the documents of every
\* other session stay as they were, no document of an unknown session
\* appears, and what the request stores is found under its URL user id
C37_StoredUnderUrlId ==
  [][(track.pc = "on" /\ track'.submits > track.submits) =>
       /\ \A u \in Sessions :
            /\ track'.stored[u] = track.stored[u] =>
                 DocsOf(track'.coll, u) = DocsOf(track.coll, u)
            /\ track'.stored[u] > track.stored[u] =>
                 Len(DocsOf(track'.coll, u)) = 1
       /\ \A i \in 1..Len(track'.coll) : track'.coll[i].sessionId \in Sessions
       /\ (\A u \in Sessions : track'.stored[u] = track.stored[u]) =>
            track'.coll = track.coll]_vars

\* the body names u2, the URL u1: the only document is that of u1
C37_Witness ==
  /\ track.pc = "on" /\ track.payload.sessionId = "u2"
  /\ track.stored["u1"] = 1 /\ track.stored["u2"] = 0
  /\ track.status = 200
  /\ Len(track.coll) = 1 /\ track.coll[1].sessionId = "u1"
  /\ track.coll[1].searches # <<>>

\* C38: a request with another method gets 405, one without user id 400,
\* one whose body is a text that does not parse or is not an object 400,
\* each without a connection request or a write; a database failure gets
\* 500; every request gets exactly one response
C38_InvalidRequestsRejected ==
  [][(track.pc = "on" /\ track'.submits > track.submits) =>
       LET rq == track'.last
           status == track'.status
           untouched == /\ track'.connects = track.connects
                        /\ track'.writes = track.writes
                        /\ track'.coll = track.coll
           valid == /\ rq.method = "POST" /\ rq.userID # ""
                    /\ rq.kind \in {"object", "text", "array"}
       IN  /\ track'.responses = track.responses + 1
           /\ rq.method # "POST" => (status = 405 /\ untouched)
           /\ (rq.method = "POST" /\ rq.userID = "") => (status = 400 /\ untouched)
           /\ (rq.method = "POST" /\ rq.userID # ""
                 /\ rq.kind \in {"badText", "numberText", "null", "number"}) =>
                (status = 400 /\ untouched)
           /\ (valid /\ rq.db # "ok") => (status = 500 /\ track'.coll = track.coll)
           /\ (valid /\ rq.db = "ok") => status = 200]_vars

\* after one stored payload, a request whose body is a number is refused
\* with 400: one connection request and one write in all
C38_Witness ==
  /\ track.pc = "on" /\ track.responses = 2 /\ track.status = 400
  /\ track.last.method = "POST" /\ track.last.userID = "u1"
  /\ track.last.kind = "number"
  /\ track.connects = 1 /\ track.writes = 1 /\ Len(track.coll) = 1

(* ------------------------------------------------------------------ *)
(* pages/[userID]/index.js: the search page                            *)
(*                                                                     *)
(* The page is followed once it is initialized (router ready, userID   *)
(* present).  Time is counted in user events; a click's start time is  *)
(* the time of the event that made it.                                 *)
(* ------------------------------------------------------------------ *)
\* the most user events followed
MaxEvents == 4

Queries == {"q1", "q2"}
Urls == {"a", "b"}

NoClick == [url |-> "", startTime |-> 0]
EmptyBuffer == [searches |-> <<>>, clicks |-> <<>>]
NoResults == [set |-> FALSE, query |-> "", items |-> FALSE]

\* useState and useRef initial values; sendBeacon is or is not available
PageStart(beaconApi) ==
  [pc |-> "on", beaconApi |-> beaconApi, now |-> 1,
   isBrowsing |-> FALSE, iframeUrl |-> "", loading |-> FALSE,
   searchResults |-> NoResults, currentQuery |-> "",
   currentClickData |-> NoClick, trackingData |-> EmptyBuffer,
   calls |-> <<>>, sent |-> <<>>, searchRequests |-> <<>>,
   opened |-> <<>>, clickLog |-> <<>>, hides |-> 0]

InitPage ==
  /\ HandlerOff
  /\ probe = ProbeOff
  /\ filt = FiltOff
  /\ mongo = MongoOff
  /\ track = TrackOff
  /\ page \in {PageStart(b) : b \in BOOLEAN}

\* a request to /api/track-data/[userID]; the outcome of a request that
\* nothing awaits (the click sent by finalizeClick, the fallback fetch on
\* unload) changes nothing in the page and is not followed
TrackingRequest(via, searches, clicks, state) ==
  [via |-> via, searches |-> searches, clicks |-> clicks, state |-> state]

\* the clickEntry built from currentClickData
ClickEntry(click, endTime, query) ==
  [url |-> click.url, startTime |-> click.startTime, endTime |-> endTime,
   duration |-> endTime - click.startTime, searchQuery |-> query]

\* which search bar is on screen: the browser view covers the page
BarShown(pg, bar) ==
  IF bar = "browser" THEN pg.isBrowsing /\ pg.iframeUrl # "" ELSE ~pg.isBrowsing

\* the browser is hidden but the iframe URL is kept
CloseBrowserKeepsUrl(pg) == [pg EXCEPT !.isBrowsing = FALSE]

\* setIsBrowsing(false); setIframeUrl('')
CloseBrowser(pg) == [pg EXCEPT !.isBrowsing = FALSE, !.iframeUrl = ""]

\* handleSearch(query) up to the await inside sendTrackingData
Submit(q, bar) ==
  /\ page.pc = "on"
  /\ page.now <= MaxEvents
  /\ BarShown(page, bar)
  /\ LET searchEntry == [query |-> q, timestamp |-> page.now]
     IN  page' = [CloseBrowser(page) EXCEPT
           !.now = @ + 1,
           !.loading = TRUE, !.searchResults = NoResults, !.currentQuery = q,
           !.trackingData.searches = Append(@, searchEntry),
           !.sent = Append(@, TrackingRequest("fetch", <<searchEntry>>, <<>>, "pending")),
           !.calls = Append(@, [query |-> q, pc |-> "awaitTrack",
                                tracking |-> Len(page.sent) + 1])]
  /\ UNCHANGED <<handlerVars, probe, filt, mongo, track>>

\* await sendTrackingData(...) returns; fetch('/api/search', ...) is sent
AfterTracking(c) == [c EXCEPT !.pc = "awaitSearch"]

\* a tracking fetch settles (ok, or a failure that sendTrackingData turns
\* into false); the handleSearch that awaited it goes on to the search
TrackingSettles(i, ok) ==
  /\ page.pc = "on"
  /\ i \in 1..Len(page.sent)
  /\ page.sent[i].via = "fetch" /\ page.sent[i].state = "pending"
  /\ LET Awaits(j) == page.calls[j].pc = "awaitTrack" /\ page.calls[j].tracking = i
         js == {j \in 1..Len(page.calls) : Awaits(j)}
     IN  page' = [page EXCEPT
           !.sent[i].state = IF ok THEN "ok" ELSE "failed",
           !.calls = [j \in 1..Len(page.calls) |->
                        IF j \in js THEN AfterTracking(page.calls[j])
                        ELSE page.calls[j]],
           !.searchRequests =
             IF js = {} THEN @ ELSE Append(@, page.calls[CHOOSE j \in js : TRUE].query)]
  /\ UNCHANGED <<handlerVars, probe, filt, mongo, track>>

\* the search fetch of a handleSearch settles: results, no results, or an
\* error; setSearchResults and setLoading(false)
SearchSettles(j, items) ==
  /\ page.pc = "on"
  /\ j \in 1..Len(page.calls)
  /\ page.calls[j].pc = "awaitSearch"
  /\ page' = [page EXCEPT
        !.calls[j].pc = "done",
        !.searchResults = [set |-> TRUE, query |-> page.calls[j].query, items |-> items],
        !.loading = FALSE]
  /\ UNCHANGED <<handlerVars, probe, filt, mongo, track>>

\* handleResultClick(url): a result of the list on screen is clicked
ResultClick(u) ==
  /\ page.pc = "on"
  /\ page.now <= MaxEvents
  /\ ~page.isBrowsing /\ ~page.loading
  /\ page.searchResults.set /\ page.searchResults.items
  /\ LET click == [url |-> u, startTime |-> page.now]
     IN  page' = [page EXCEPT
           !.now = @ + 1,
           !.currentClickData = click,
           !.iframeUrl = u, !.isBrowsing = TRUE,
           !.opened = Append(@, click)]
  /\ UNCHANGED <<handlerVars, probe, filt, mongo, track>>

\* closeEmbeddedBrowser: finalizeClick, then hide the browser
Back ==
  /\ page.pc = "on"
  /\ page.now <= MaxEvents
  /\ page.isBrowsing /\ page.iframeUrl # ""
  /\ LET open == page.currentClickData # NoClick
         clickEntry == ClickEntry(page.currentClickData, page.now, page.currentQuery)
         shut == [page EXCEPT !.now = @ + 1, !.isBrowsing = FALSE, !.iframeUrl = ""]
     IN  page' =
           IF open
             THEN [shut EXCEPT
                     !.trackingData.clicks = Append(@, clickEntry),
                     !.clickLog = Append(@, clickEntry),
                     !.sent = Append(@, TrackingRequest("fetch", <<>>, <<clickEntry>>,
                                                        "unawaited")),
                     !.currentClickData = NoClick]
             ELSE shut
  /\ UNCHANGED <<handlerVars, probe, filt, mongo, track>>

\* the buffer is kept after a beacon that was accepted
BufferAfterBeaconKept(buffer, success) == buffer

\* if (success) trackingDataRef.current = { searches: [], clicks: [] }
BufferAfterBeacon(buffer, success) == IF success THEN EmptyBuffer ELSE buffer

\* handleBeforeUnload, for beforeunload (leaving) and for visibilitychange
\* to hidden: finalize the open click into the buffer, then send the buffer
\* by sendBeacon (which accepts it or not), or by fetch without sendBeacon
HideOrUnload(leaving, success) ==
  /\ page.pc = "on"
  /\ page.now <= MaxEvents
  /\ LET open == page.currentClickData # NoClick
         clickEntry == ClickEntry(page.currentClickData, page.now, page.currentQuery)
         p1 == [page EXCEPT !.now = @ + 1, !.hides = @ + 1,
                            !.pc = IF leaving THEN "closed" ELSE "on"]
         p2 == IF open
                 THEN [p1 EXCEPT !.trackingData.clicks = Append(@, clickEntry),
                                 !.clickLog = Append(@, clickEntry),
                                 !.currentClickData = NoClick]
                 ELSE p1
         buffer == p2.trackingData
     IN  page' =
           IF buffer.searches = <<>> /\ buffer.clicks = <<>>
             THEN p2
           ELSE IF page.beaconApi
             THEN [p2 EXCEPT
                     !.sent = Append(@, TrackingRequest("beacon", buffer.searches,
                                       buffer.clicks,
                                       IF success THEN "queued" ELSE "refused")),
                     !.trackingData = BufferAfterBeacon(buffer, success)]
           ELSE [p2 EXCEPT
                   !.sent = Append(@, TrackingRequest("fetch", buffer.searches,
                                                      buffer.clicks, "unawaited"))]
  /\ UNCHANGED <<handlerVars, probe, filt, mongo, track>>

NextPage ==
  \/ \E q \in Queries, bar \in {"header", "browser"} : Submit(q, bar)
  \/ \E i \in 1..(2 * MaxEvents), ok \in BOOLEAN : TrackingSettles(i, ok)
  \/ \E j \in 1..MaxEvents, items \in BOOLEAN : SearchSettles(j, items)
  \/ \E u \in Urls : ResultClick(u)
  \/ Back
  \/ \E leaving \in BOOLEAN, success \in BOOLEAN : HideOrUnload(leaving, success)

SpecPage == InitPage /\ [][NextPage]_vars

\* C23: once a query is submitted its search request is sent, whether the
\* tracking call has completed, has failed or is still pending
C23_SearchNotBlocked ==
  page.pc # "off" =>
    \A j \in 1..Len(page.calls) : page.calls[j].pc # "awaitTrack"

\* the click entries recorded for the click that opened the browser
EntriesOf(click) ==
  {k \in 1..Len(page.clickLog) :
     page.clickLog[k].url = click.url /\ page.clickLog[k].startTime = click.startTime}

\* C27: each click that opened the browser has exactly one click entry, or
\* is still the pending click and has none
C27_OneEntryPerClick ==
  page.pc # "off" =>
    \A k \in 1..Len(page.opened) :
      Cardinality(EntriesOf(page.opened[k])) =
        (IF page.currentClickData = page.opened[k] THEN 0 ELSE 1)

\* C28: a hidden or unload event leaves no pending click, records the open
\* click, sends nothing when nothing is buffered and otherwise sends one
\* request with every buffered search and click; a beacon that was accepted
\* leaves the buffer empty
C28_FlushOnHide ==
  [][page.pc = "on" /\ page'.hides > page.hides =>
       LET open == page.currentClickData # NoClick
           clicks == IF open THEN Append(page.trackingData.clicks,
                                         page'.clickLog[Len(page'.clickLog)])
                     ELSE page.trackingData.clicks
           searches == page.trackingData.searches
           last == page'.sent[Len(page'.sent)]
       IN  /\ page'.currentClickData = NoClick
           /\ Len(page'.clickLog) = Len(page.clickLog) + (IF open THEN 1 ELSE 0)
           /\ open =>
                /\ page'.clickLog[Len(page'.clickLog)].url = page.currentClickData.url
                /\ page'.clickLog[Len(page'.clickLog)].startTime =
                     page.currentClickData.startTime
           /\ IF searches = <<>> /\ clicks = <<>>
                THEN page'.sent = page.sent
                ELSE /\ Len(page'.sent) = Len(page.sent) + 1
                     /\ last.searches = searches /\ last.clicks = clicks
                     /\ last.state = "queued" => page'.trackingData = EmptyBuffer]_vars

\* a click was open when the page was hidden; the beacon took the search
\* and the click; the page was hidden again and nothing more was sent
C28_Witness ==
  /\ page.pc = "on" /\ page.hides = 2 /\ page.beaconApi
  /\ page.trackingData = EmptyBuffer
  /\ Len(page.clickLog) = 1
  /\ Cardinality({i \in 1..Len(page.sent) : page.sent[i].via = "beacon"}) = 1
  /\ \E i \in 1..Len(page.sent) :
       /\ page.sent[i].via = "beacon" /\ page.sent[i].state = "queued"
       /\ Len(page.sent[i].searches) = 1 /\ Len(page.sent[i].clicks) = 1

\* a handleSearch call that has not finished
InFlight(j) == page.calls[j].pc # "done"

\* C35: when every search has completed the results on screen are those of
\* the query submitted last, and loading is off only when no search is in
\* flight
C35_LatestQueryWins ==
  page.pc # "off" =>
    /\ (page.calls # <<>> /\ \A j \in 1..Len(page.calls) : ~InFlight(j)) =>
         /\ page.searchResults.set
         /\ page.searchResults.query = page.calls[Len(page.calls)].query
    /\ ~page.loading => \A j \in 1..Len(page.calls) : ~InFlight(j)

\* C36: the browser flag and the iframe URL are set and cleared together; a
\* result click shows the browser with the clicked URL, a submission hides
\* it and clears the URL in the step that precedes its search request, Back
\* hides it, and no other step changes it
C36_BrowserVisibility ==
  [][page.pc = "on" =>
       LET clicked == Len(page'.opened) > Len(page.opened)
           submitted == Len(page'.calls) > Len(page.calls)
           back == /\ page'.now = page.now + 1 /\ page'.hides = page.hides
                   /\ ~clicked /\ ~submitted
       IN  /\ page'.isBrowsing <=> page'.iframeUrl # ""
           /\ clicked =>
                /\ page'.isBrowsing
                /\ page'.iframeUrl = page'.opened[Len(page'.opened)].url
           /\ submitted =>
                /\ ~page'.isBrowsing /\ page'.iframeUrl = ""
                /\ page'.searchRequests = page.searchRequests
           /\ back => page.isBrowsing /\ ~page'.isBrowsing
           /\ (~clicked /\ ~submitted /\ ~back) =>
                /\ page'.isBrowsing = page.isBrowsing
                /\ page'.iframeUrl = page.iframeUrl]_vars

\* the browser was opened by a click and closed by a submission from its
\* own search bar, whose search request has been sent
C36_Witness ==
  /\ page.pc = "on" /\ Len(page.opened) = 1 /\ page.currentClickData # NoClick
  /\ ~page.isBrowsing /\ page.iframeUrl = ""
  /\ Len(page.calls) = 2 /\ Len(page.searchRequests) = 2

====
